---- MODULE Spec2Model ----
(***************************************************************************)
(* A model of the dejavu audio-fingerprint engine: the hash generator      *)
(* (fingerprint.py), the matcher align_matches and the ingestion           *)
(* coordinator fingerprint_directory / fingerprint_file (__init__.py).     *)
(***************************************************************************)
EXTENDS Integers, Sequences, FiniteSets

VARIABLES
    songs,           \* catalog table `songs`: songs[song_id] is the row
    fingerprints,    \* catalog table `fingerprints`: rows <<song_id, hash, time_offset>>
    songhashes_set,  \* Dejavu.songhashes_set
    pc,              \* position of the coordinator thread
    call,            \* the call in progress or last made, with what it printed
    filenames,       \* filenames_to_fingerprint of the call in progress
    taskState,       \* pool tasks of the call: path -> pending/done/consumed
    nprocesses,      \* size of the pool of the call in progress
    results,         \* finished tasks not yet consumed, in completion order
    cur,             \* the (song_name, hashes, file_hash) being written and its sid
    pending,         \* match pairs return_matches has not yet handed over
    alignSt,         \* locals of the loop of align_matches
    ret,             \* what the last call returned or raised
    matches,         \* input of align_matches
    peaks,           \* input of generate_hashes: [peaks, fan_value]
    hashes           \* output of generate_hashes

vars == <<songs, fingerprints, songhashes_set, pc, call, filenames, taskState,
          nprocesses, results, cur, pending, alignSt, ret, matches, peaks, hashes>>

----------------------------------------------------------------------------
(* Bounds of the model *)

\* Number of audio files on disk
NumPaths == 3
\* Largest number of rows of the songs table
MaxSongs == 2
\* Largest start frame of a recognized clip
MaxShift == 1
\* Largest pool size asked of fingerprint_directory
MaxProcs == 2
\* Longest peak list given to generate_hashes
MaxPeaks == 3
\* Longest sequence of match pairs given to align_matches
MaxMatches == 3

----------------------------------------------------------------------------
(* Program constants (fingerprint.py) *)

\* Tuples are indexed from 1 here, from 0 in the source
IDX_FREQ_I == 1
IDX_TIME_J == 2
DEFAULT_FS == 44100
DEFAULT_WINDOW_SIZE == 4096
DEFAULT_FAN_VALUE == 15
MIN_HASH_TIME_DELTA == 0
MAX_HASH_TIME_DELTA == 200

None == [none |-> TRUE]

----------------------------------------------------------------------------
(* list.sort() on a list of (freq, time) tuples: ascending, lexicographic *)

\* A bug: the peaks are ordered by time-bin only (sort(key=itemgetter(1)))
TupleLess_TimeOnly(a, b) == a[IDX_TIME_J] < b[IDX_TIME_J]

TupleLess(a, b) ==
    \/ a[IDX_FREQ_I] < b[IDX_FREQ_I]
    \/ a[IDX_FREQ_I] = b[IDX_FREQ_I] /\ a[IDX_TIME_J] < b[IDX_TIME_J]

RECURSIVE InsertSorted(_, _)
InsertSorted(x, s) ==
    IF s = <<>> THEN <<x>>
    ELSE IF TupleLess(x, Head(s)) THEN <<x>> \o s
    ELSE <<Head(s)>> \o InsertSorted(x, Tail(s))

RECURSIVE SortPeaks(_)
SortPeaks(s) ==
    IF s = <<>> THEN <<>> ELSE InsertSorted(Head(s), SortPeaks(Tail(s)))

----------------------------------------------------------------------------
(* generate_hashes *)

\* "%s|%s|%s" % (str(freq1), str(freq2), str(t_delta)): the decimal fields,
\* separated by a character no field holds
MaybeHash(freq1, freq2, t_delta) == <<freq1, freq2, t_delta>>

\* hashlib.sha1(...).hexdigest()[0:FINGERPRINT_REDUCTION]: a digest of the
\* descriptor; distinct descriptors are taken to have distinct digests
Sha1Prefix(desc) == [sha1 |-> desc]

\* A bug: the upper limit on the time delta is not applied
DeltaInRange_NoUpper(t_delta) == t_delta >= MIN_HASH_TIME_DELTA

\* The condition under which a pair of peaks yields a record
DeltaInRange(t_delta) ==
    t_delta >= MIN_HASH_TIME_DELTA /\ t_delta <= MAX_HASH_TIME_DELTA

\* A bug: the target zone reaches one peak too far
FanRange_Inclusive(fan_value) == 1 .. fan_value

\* The values j of the inner loop, range(1, fan_value)
FanRange(fan_value) == 1 .. (fan_value - 1)

\* One iteration of the inner loop for indices i (1-based) and j: the records
\* it yields, each with the pair it comes from
PairStep(sorted, i, j) ==
    IF i + j <= Len(sorted)
    THEN LET freq1 == sorted[i][IDX_FREQ_I]
             freq2 == sorted[i + j][IDX_FREQ_I]
             t1 == sorted[i][IDX_TIME_J]
             t2 == sorted[i + j][IDX_TIME_J]
             t_delta == t2 - t1
         IN  IF DeltaInRange(t_delta)
             THEN << [rec |-> <<Sha1Prefix(MaybeHash(freq1, freq2, t_delta)), t1>>,
                      anchor |-> i, target |-> i + j, delta |-> t_delta] >>
             ELSE <<>>
    ELSE <<>>

RECURSIVE InnerLoop(_, _, _, _)
InnerLoop(sorted, i, j, fan_value) ==
    IF j \notin FanRange(fan_value) THEN <<>>
    ELSE PairStep(sorted, i, j) \o InnerLoop(sorted, i, j + 1, fan_value)

RECURSIVE OuterLoop(_, _, _)
OuterLoop(sorted, i, fan_value) ==
    IF i > Len(sorted) THEN <<>>
    ELSE InnerLoop(sorted, i, 1, fan_value) \o OuterLoop(sorted, i + 1, fan_value)

\* The records generate_hashes yields, in order, each with its provenance
EmittedPairs(peakList, fan_value) == OuterLoop(SortPeaks(peakList), 1, fan_value)

generate_hashes(peakList, fan_value) ==
    LET e == EmittedPairs(peakList, fan_value)
    IN  [n \in 1 .. Len(e) |-> e[n].rec]

----------------------------------------------------------------------------
(* The catalog store (dejavu.database): the songs and fingerprints tables *)

SongIds == 1 .. Len(songs)

\* Database.get_songs: the rows of the fingerprinted songs
get_songs == { sid \in SongIds : songs[sid].fingerprinted }

\* Database.get_song_by_id: the row, or nothing when no row has this id
get_song_by_id(sid) == IF sid \in SongIds THEN songs[sid] ELSE None

\* Database.insert_song: a new row with the next id, not yet fingerprinted
insert_song(song_name, file_hash) ==
    Append(songs, [song_name |-> song_name, file_sha1 |-> file_hash,
                   fingerprinted |-> FALSE])

\* Database.insert_hashes: one row per record; duplicates are dropped
insert_hashes(sid, hs) == fingerprints \cup { <<sid, r[1], r[2]>> : r \in hs }

\* Database.set_song_fingerprinted
set_song_fingerprinted(sid) == [songs EXCEPT ![sid].fingerprinted = TRUE]

\* Database.return_matches: a pair (song_id, db_time - query_time) for every
\* fingerprint row and query record with the same hash
return_matches(query) ==
    { [sid |-> f[1], diff |-> f[3] - q[2], row |-> f, rec |-> q] :
        <<f, q>> \in { x \in fingerprints \X query : x[1][2] = x[2][1] } }

----------------------------------------------------------------------------
(* Dejavu.align_matches *)

\* A bug: the winner starts out as a song id the catalog can hold
InitSongId_One == 0 + 1

\* The initial values of the loop's locals
InitSongId == -1
InitLargestCount == 0

AlignInit ==
    [diff_counter |-> << >>, largest |-> 0,
     largest_count |-> InitLargestCount, song_id |-> InitSongId]

\* A bug: the tally of a key is not carried over, every pair counts as the
\* key's first
Tally_Forget(diff_counter, diff, sid) == 0

\* diff_counter[diff][sid], 0 when the key is absent
Tally(diff_counter, diff, sid) ==
    IF <<diff, sid>> \in DOMAIN diff_counter THEN diff_counter[<<diff, sid>>] ELSE 0

\* A bug: a key that only equals the running maximum replaces the winner
Displaces_OnTie(count, largest_count) == count >= largest_count

\* A bug: every pair replaces the winner, whatever its key's tally
Displaces_Always(count, largest_count) == TRUE

\* Whether the key just counted replaces the winner
Displaces(count, largest_count) == count > largest_count

\* A bug: the winner's count is updated but its offset difference is not
AlignStep_StaleOffset(st, tup) ==
    LET sid == tup[1]
        diff == tup[2]
        key == <<diff, sid>>
        count == (IF key \in DOMAIN st.diff_counter THEN st.diff_counter[key] ELSE 0) + 1
        counter == [k \in DOMAIN st.diff_counter \cup {key} |->
                      IF k = key THEN count ELSE st.diff_counter[k]]
    IN  IF count > st.largest_count
        THEN [diff_counter |-> counter, largest |-> st.largest,
              largest_count |-> count, song_id |-> sid]
        ELSE [st EXCEPT !.diff_counter = counter]

\* One iteration of the loop over matches
AlignStep(st, tup) ==
    LET sid == tup[1]
        diff == tup[2]
        key == <<diff, sid>>
        count == Tally(st.diff_counter, diff, sid) + 1
        counter == [k \in DOMAIN st.diff_counter \cup {key} |->
                      IF k = key THEN count ELSE st.diff_counter[k]]
    IN  IF Displaces(count, st.largest_count)
        THEN [diff_counter |-> counter, largest |-> diff,
              largest_count |-> count, song_id |-> sid]
        ELSE [st EXCEPT !.diff_counter = counter]

RECURSIVE AlignLoop(_, _)
AlignLoop(st, ms) ==
    IF ms = <<>> THEN st ELSE AlignLoop(AlignStep(st, Head(ms)), Tail(ms))

\* round(float(largest) / DEFAULT_FS * DEFAULT_WINDOW_SIZE * DEFAULT_OVERLAP_RATIO, 5)
\* in units of 10^-5 s: largest * 4096 * (1/2) * 10^5 / 44100, which is
\* largest * (4096 * 500) / 441, rounded to the nearest integer (no value
\* lies half way between two: 441 is odd)
OffsetSeconds(largest) ==
    LET num == largest * (DEFAULT_WINDOW_SIZE * 500)
        den == DEFAULT_FS \div 100
        q == num \div den
        r == num % den
    IN  IF 2 * r > den THEN q + 1 ELSE q

\* A bug: the result is built without looking whether the song row exists
AlignResult_NoRowCheck(st) ==
    [song_id |-> st.song_id,
     song_name |-> None,
     confidence |-> st.largest_count,
     offset |-> st.largest,
     offset_seconds |-> OffsetSeconds(st.largest),
     file_sha1 |-> None]

\* The part of align_matches after the loop
AlignResult(st) ==
    LET song == get_song_by_id(st.song_id)
    IN  IF song # None
        THEN [song_id |-> st.song_id,
              song_name |-> song.song_name,
              confidence |-> st.largest_count,
              offset |-> st.largest,
              offset_seconds |-> OffsetSeconds(st.largest),
              file_sha1 |-> song.file_sha1]
        ELSE None

align_matches(ms) == AlignResult(AlignLoop(AlignInit, ms))

----------------------------------------------------------------------------
(* The audio files on disk and what the decoder and the peak extractor make
   of them *)

Paths == 1 .. NumPaths

Range(f) == { f[x] : x \in DOMAIN f }

\* decoder.unique_hash: the SHA-1 of the file's bytes. Paths 1 and 2 hold the
\* same bytes.
unique_hash(p) == IF p <= 2 THEN 1 ELSE p - 1

\* decoder.path_to_songname / os.path.splitext(os.path.basename(filename))
path_to_songname(p) == p

\* decoder.read followed by specgram and get_2D_peaks: per channel, the list
\* of (freq, time) peaks of the file with this content. Content 1 is stereo,
\* content 2 is mono, any other content is silent (no peaks).
ChannelPeaks(sha) ==
    IF sha = 1 THEN << << <<10, 0>>, <<10, 5>>, <<10, 250>> >>,
                       << <<10, 205>>, <<10, 0>>, <<10, 5>> >> >>
    ELSE IF sha = 2 THEN << << <<10, 8>>, <<10, 3>> >> >>
    ELSE << <<>> >>

\* decoder.read: the sample rate (Hz) of the file with this content. Content 2
\* is a 48 kHz recording, the others are at 44.1 kHz.
SampleRate(sha) == IF sha = 2 THEN 48000 ELSE 44100

\* fingerprint(channel_samples): the records of one channel
fingerprint(channelPeaks) == generate_hashes(channelPeaks, DEFAULT_FAN_VALUE)

\* A bug: only the first channel's records are kept
UnionOfChannels_FirstChannel(channels) == Range(fingerprint(channels[1]))

\* result |= set(hashes), over the channels
UnionOfChannels(channels) ==
    UNION { Range(fingerprint(channels[c])) : c \in DOMAIN channels }

\* The record set the worker computes for each file content on disk
FileHashes ==
    [sha \in { unique_hash(p) : p \in Paths } |-> UnionOfChannels(ChannelPeaks(sha))]

\* _fingerprint_worker: (song_name, result, file_hash)
fingerprint_worker(p) ==
    [song_name |-> path_to_songname(p),
     hashes |-> FileHashes[unique_hash(p)],
     file_hash |-> unique_hash(p)]

----------------------------------------------------------------------------
(* The state after Dejavu.__init__ on an empty catalog *)

NoCall == [kind |-> "none"]
NoCur == [song_name |-> 0, hashes |-> {}, file_hash |-> 0, sid |-> 0]
Returned == [status |-> "returned"]
\* The call ended with an exception: one the catalog raised, or one
\* decoder.read or fingerprint raised
RaisedCatalog == [status |-> "raised", error |-> "catalog"]
RaisedWorker == [status |-> "raised", error |-> "worker"]
Running == [status |-> "running"]
NoInput == [peaks |-> <<>>, fan_value |-> 0]

\* A bug: the set is built from every song row, fingerprinted or not
FingerprintedHashes_AllRows(rows) == { rows[sid].file_sha1 : sid \in 1 .. Len(rows) }

\* Dejavu.get_fingerprinted_songs: the set built from db.get_songs()
FingerprintedHashes(rows) ==
    { rows[sid].file_sha1 : sid \in { i \in 1 .. Len(rows) : rows[i].fingerprinted } }

Init ==
    /\ songs = <<>>
    /\ fingerprints = {}
    /\ songhashes_set = FingerprintedHashes(<<>>)
    /\ pc = "idle"
    /\ call = NoCall
    /\ filenames = <<>>
    /\ taskState = << >>
    /\ nprocesses = 0
    /\ results = <<>>
    /\ cur = NoCur
    /\ pending = {}
    /\ alignSt = AlignInit
    /\ ret = Returned
    /\ matches = <<>>
    /\ peaks = NoInput
    /\ hashes = <<>>

pureVars == <<matches, peaks, hashes>>
recogVars == <<pending, alignSt>>
poolVars == <<filenames, taskState, nprocesses, results>>
catalogVars == <<songs, fingerprints>>

----------------------------------------------------------------------------
(* Dejavu.fingerprint_directory *)

\* decoder.find_files: the matching files of a directory, in the order
\* os.walk gives them
Listings ==
    { l \in UNION { [1 .. n -> Paths] : n \in 0 .. NumPaths } :
        \A i, j \in DOMAIN l : i # j => l[i] # l[j] }

\* A bug: the filter lets every file through
NotKnown_NoFilter(p) == TRUE

\* The filter "don't refingerprint already fingerprinted files"
NotKnown(p) == unique_hash(p) \notin songhashes_set

\* What the catalog stores, by content: the (file_sha1, hash, time_offset) of
\* every fingerprint row and the file_sha1 of every fingerprinted song
StoredFingerprints == { <<songs[f[1]].file_sha1, f[2], f[3]>> : f \in fingerprints }

FingerprintedSha1s == { songs[sid].file_sha1 : sid \in get_songs }

\* Lines 53-82: the pool, the filtered file list, the tasks sent off. The call
\* record keeps what the catalog stored when the call was made.
FingerprintDirectory(listing, n) ==
    /\ pc = "idle"
    /\ Len(songs) + Len(SelectSeq(listing, NotKnown)) <= MaxSongs
    /\ filenames' = SelectSeq(listing, NotKnown)
    /\ call' = [kind |-> "directory",
                skipped |-> { p \in Range(listing) : ~NotKnown(p) },
                failed |-> {},
                before |-> [fingerprints |-> StoredFingerprints,
                            known |-> FingerprintedSha1s]]
    /\ taskState' = [p \in Range(filenames') |-> "pending"]
    /\ nprocesses' = n
    /\ results' = <<>>
    /\ cur' = NoCur
    /\ ret' = Running
    /\ pc' = "collect"
    /\ pending' = {}
    /\ alignSt' = AlignInit
    /\ UNCHANGED <<catalogVars, songhashes_set, pureVars>>

\* The tasks a pool of nprocesses workers has picked up: the pool hands the
\* tasks out in order, a worker takes the next one when it is free
Started(p) ==
    LET done == Cardinality({ q \in DOMAIN taskState : taskState[q] # "pending" })
    IN  \E i \in 1 .. Len(filenames) : filenames[i] = p /\ i <= done + nprocesses

\* A pool worker finishes _fingerprint_worker on a file: it returns the triple
\* or raises (decoder.read or fingerprint failed)
WorkerFinish(p, ok) ==
    /\ pc \notin {"idle", "done"}
    /\ call.kind = "directory"
    /\ p \in DOMAIN taskState
    /\ taskState[p] = "pending"
    /\ Started(p)
    /\ taskState' = [taskState EXCEPT ![p] = "done"]
    /\ results' = Append(results, [path |-> p, ok |-> ok])
    /\ UNCHANGED <<catalogVars, songhashes_set, pc, call, filenames, nprocesses,
                   cur, recogVars, ret, pureVars>>

\* song_name, hashes, file_hash = ...: the locals of the coordinator
Unpack(w) ==
    [song_name |-> w.song_name, hashes |-> w.hashes, file_hash |-> w.file_hash,
     sid |-> 0]

\* iterator.next() hands over a result: lines 88 and 97-98
CollectResult ==
    /\ pc = "collect"
    /\ results # <<>>
    /\ Head(results).ok
    /\ results' = Tail(results)
    /\ taskState' = [taskState EXCEPT ![Head(results).path] = "consumed"]
    /\ cur' = Unpack(fingerprint_worker(Head(results).path))
    /\ pc' = "insert_song"
    /\ UNCHANGED <<catalogVars, songhashes_set, call, filenames, nprocesses,
                   recogVars, ret, pureVars>>

\* A bug: no except clause for what the worker raised, which then leaves
\* the call
CollectFailure_Propagates ==
    /\ pc = "collect"
    /\ results # <<>>
    /\ ~Head(results).ok
    /\ results' = <<>>
    /\ taskState' = [taskState EXCEPT ![Head(results).path] = "consumed"]
    /\ pc' = "done"
    /\ ret' = RaisedWorker
    /\ filenames' = <<>>
    /\ nprocesses' = 0
    /\ UNCHANGED <<catalogVars, songhashes_set, call, cur, recogVars, pureVars>>

\* iterator.next() re-raises what the worker raised; the bare except prints
\* "Failed fingerprinting" and the loop goes on: lines 93-96
CollectFailure ==
    /\ pc = "collect"
    /\ results # <<>>
    /\ ~Head(results).ok
    /\ results' = Tail(results)
    /\ taskState' = [taskState EXCEPT ![Head(results).path] = "consumed"]
    /\ call' = [call EXCEPT !.failed = @ \cup {Head(results).path}]
    /\ UNCHANGED <<catalogVars, songhashes_set, pc, filenames, nprocesses, cur,
                   recogVars, ret, pureVars>>

\* iterator.next() raises StopIteration when every task's result has been
\* handed over; the loop breaks and the call returns: lines 91-92, 105-106
CollectStop ==
    /\ pc = "collect"
    /\ call.kind = "directory"
    /\ results = <<>>
    /\ \A p \in DOMAIN taskState : taskState[p] = "consumed"
    /\ pc' = "done"
    /\ ret' = Returned
    /\ filenames' = <<>>
    /\ nprocesses' = 0
    /\ UNCHANGED <<catalogVars, songhashes_set, call, taskState, results, cur,
                   recogVars, pureVars>>

----------------------------------------------------------------------------
(* The three catalog writes and the refresh: lines 99-103 and 121-125 *)

\* A bug: the flag is set before the hashes are inserted
NextWrite_FlagFirst(step) ==
    CASE step = "insert_song" -> "set_song_fingerprinted"
      [] step = "set_song_fingerprinted" -> "insert_hashes"
      [] step = "insert_hashes" -> "get_fingerprinted_songs"

\* The statement that follows each write
NextWrite(step) ==
    CASE step = "insert_song" -> "insert_hashes"
      [] step = "insert_hashes" -> "set_song_fingerprinted"
      [] step = "set_song_fingerprinted" -> "get_fingerprinted_songs"

\* sid = self.db.insert_song(song_name, file_hash)
InsertSong ==
    /\ pc = "insert_song"
    /\ songs' = insert_song(cur.song_name, cur.file_hash)
    /\ cur' = [cur EXCEPT !.sid = Len(songs')]
    /\ pc' = NextWrite(pc)
    /\ UNCHANGED <<fingerprints, songhashes_set, call, poolVars, recogVars, ret,
                   pureVars>>

\* self.db.insert_hashes(sid, hashes)
InsertHashes ==
    /\ pc = "insert_hashes"
    /\ fingerprints' = insert_hashes(cur.sid, cur.hashes)
    /\ pc' = NextWrite(pc)
    /\ UNCHANGED <<songs, songhashes_set, call, poolVars, cur, recogVars, ret,
                   pureVars>>

\* self.db.set_song_fingerprinted(sid)
SetSongFingerprinted ==
    /\ pc = "set_song_fingerprinted"
    /\ songs' = set_song_fingerprinted(cur.sid)
    /\ pc' = NextWrite(pc)
    /\ UNCHANGED <<fingerprints, songhashes_set, call, poolVars, cur, recogVars,
                   ret, pureVars>>

\* Where the coordinator goes after the writes of one file: back to the top
\* of the loop in fingerprint_directory, out of fingerprint_file
AfterWrites == IF call.kind = "directory" THEN "collect" ELSE "done"

\* self.get_fingerprinted_songs()
GetFingerprintedSongs ==
    /\ pc = "get_fingerprinted_songs"
    /\ songhashes_set' = FingerprintedHashes(songs)
    /\ pc' = AfterWrites
    /\ ret' = IF pc' = "done" THEN Returned ELSE ret
    /\ cur' = NoCur
    /\ UNCHANGED <<catalogVars, call, poolVars, recogVars, pureVars>>

\* The catalog raises in one of the three writes. The writes stand in the
\* else clause of the try statement (line 97), which no except clause of that
\* statement covers, and fingerprint_file has no try at all: the exception
\* leaves the call.
WriteSteps == {"insert_song", "insert_hashes", "set_song_fingerprinted"}

\* A bug: what the catalog raised is swallowed and the coordinator goes on
\* with the statement after the failed write
CatalogError_GoesOn ==
    /\ pc \in WriteSteps
    /\ pc' = NextWrite(pc)
    /\ ret' = RaisedCatalog
    /\ UNCHANGED <<catalogVars, songhashes_set, call, poolVars, cur, recogVars,
                   pureVars>>

CatalogError ==
    /\ pc \in WriteSteps
    /\ pc' = "done"
    /\ ret' = RaisedCatalog
    /\ call' = call
    /\ filenames' = <<>>
    /\ nprocesses' = 0
    /\ results' = <<>>
    /\ cur' = NoCur
    /\ UNCHANGED <<catalogVars, songhashes_set, taskState, recogVars, pureVars>>

----------------------------------------------------------------------------
(* Dejavu.fingerprint_file *)

FingerprintFile(p, ok) ==
    /\ pc = "idle"
    /\ NotKnown(p) => Len(songs) < MaxSongs
    /\ call' = [kind |-> "file",
                skipped |-> IF NotKnown(p) THEN {} ELSE {p},
                failed |-> {}]
    /\ filenames' = <<>>
    /\ taskState' = << >>
    /\ nprocesses' = 0
    /\ results' = <<>>
    /\ pending' = {}
    /\ alignSt' = AlignInit
    /\ IF ~NotKnown(p)
       THEN /\ cur' = NoCur
            /\ pc' = "done"
            /\ ret' = Returned
       ELSE IF ok
       THEN /\ cur' = Unpack(fingerprint_worker(p))
            /\ pc' = "insert_song"
            /\ ret' = Running
       ELSE /\ cur' = NoCur
            /\ pc' = "done"
            /\ ret' = RaisedWorker
    /\ UNCHANGED <<catalogVars, songhashes_set, pureVars>>

----------------------------------------------------------------------------
(* Recognition: find_matches on a clip, then align_matches on what
   return_matches hands over, in the order it hands it over *)

\* The records of a clip of file p that starts k frames into it: the file's
\* records, k frames earlier
ClipRecords(p, k) == { <<r[1], r[2] - k>> : r \in fingerprint_worker(p).hashes }

\* find_matches: self.db.return_matches(hashes)
find_matches(p, k) == return_matches(ClipRecords(p, k))

Recognize(p, k) ==
    /\ pc = "idle"
    /\ call' = [kind |-> "recognize", path |-> p, shift |-> k]
    /\ pending' = find_matches(p, k)
    /\ alignSt' = AlignInit
    /\ pc' = "align"
    /\ ret' = Running
    /\ cur' = NoCur
    /\ filenames' = <<>>
    /\ taskState' = << >>
    /\ nprocesses' = 0
    /\ results' = <<>>
    /\ UNCHANGED <<catalogVars, songhashes_set, pureVars>>

\* for tup in matches: one iteration, on whichever pair comes next
AlignNext(m) ==
    /\ pc = "align"
    /\ m \in pending
    /\ pending' = pending \ {m}
    /\ alignSt' = AlignStep(alignSt, <<m.sid, m.diff>>)
    /\ UNCHANGED <<catalogVars, songhashes_set, pc, call, poolVars, cur, ret,
                   pureVars>>

\* The loop is over: lines 173-192
AlignReturn ==
    /\ pc = "align"
    /\ pending = {}
    /\ ret' = AlignResult(alignSt)
    /\ pc' = "done"
    /\ UNCHANGED <<catalogVars, songhashes_set, call, poolVars, cur, recogVars,
                   pureVars>>

----------------------------------------------------------------------------
(* The call is over: its result goes to the caller, its locals are gone *)

Return ==
    /\ pc = "done"
    /\ pc' = "idle"
    /\ call' = NoCall
    /\ ret' = Returned
    /\ filenames' = <<>>
    /\ taskState' = << >>
    /\ nprocesses' = 0
    /\ results' = <<>>
    /\ cur' = NoCur
    /\ pending' = {}
    /\ alignSt' = AlignInit
    /\ UNCHANGED <<catalogVars, songhashes_set, pureVars>>

----------------------------------------------------------------------------

Next ==
    \/ \E l \in Listings, n \in 1 .. MaxProcs : FingerprintDirectory(l, n)
    \/ \E p \in Paths, ok \in BOOLEAN : WorkerFinish(p, ok)
    \/ CollectResult
    \/ CollectFailure
    \/ CollectStop
    \/ InsertSong
    \/ InsertHashes
    \/ SetSongFingerprinted
    \/ GetFingerprintedSongs
    \/ CatalogError
    \/ \E p \in Paths, ok \in BOOLEAN : FingerprintFile(p, ok)
    \/ \E p \in Paths, k \in 0 .. MaxShift : Recognize(p, k)
    \/ \E m \in pending : AlignNext(m)
    \/ AlignReturn
    \/ Return

Spec == Init /\ [][Next]_vars

----------------------------------------------------------------------------
(* align_matches on its own: any sequence of match pairs against any small
   catalog *)

\* The song ids and offset differences the match pairs are drawn from; the
\* largest id may have no row in the catalog
AlignSongIds == 1 .. (MaxSongs + 1)
AlignDiffs == {-1, 0, 1}

SeqsUpTo(S, n) == UNION { [1 .. m -> S] : m \in 0 .. n }

\* Catalogs of up to MaxSongs rows
AlignCatalogs ==
    { [sid \in 1 .. n |-> [song_name |-> sid, file_sha1 |-> unique_hash(sid),
                           fingerprinted |-> TRUE]] : n \in 0 .. MaxSongs }

InitAlign ==
    /\ songs \in AlignCatalogs
    /\ fingerprints = {}
    /\ songhashes_set = FingerprintedHashes(songs)
    /\ pc = "idle"
    /\ call = NoCall
    /\ filenames = <<>>
    /\ taskState = << >>
    /\ nprocesses = 0
    /\ results = <<>>
    /\ cur = NoCur
    /\ pending = {}
    /\ alignSt = AlignInit
    /\ ret = Running
    /\ matches \in SeqsUpTo(AlignSongIds \X AlignDiffs, MaxMatches)
    /\ peaks = NoInput
    /\ hashes = <<>>

AlignMatches ==
    /\ call = NoCall
    /\ call' = [kind |-> "align_matches"]
    /\ ret' = align_matches(matches)
    /\ UNCHANGED <<catalogVars, songhashes_set, pc, poolVars, cur, recogVars,
                   pureVars>>

NextAlign == AlignMatches

SpecAlign == InitAlign /\ [][NextAlign]_vars

----------------------------------------------------------------------------
(* generate_hashes on its own: any short list of peaks, any fan_value *)

PeakFreqs == {10, 20}
PeakTimes == {0, 5, 205, 250}
FanValues == {1, 2, DEFAULT_FAN_VALUE}

InitHash ==
    /\ songs = <<>>
    /\ fingerprints = {}
    /\ songhashes_set = {}
    /\ pc = "idle"
    /\ call = NoCall
    /\ filenames = <<>>
    /\ taskState = << >>
    /\ nprocesses = 0
    /\ results = <<>>
    /\ cur = NoCur
    /\ pending = {}
    /\ alignSt = AlignInit
    /\ ret = Running
    /\ matches = <<>>
    /\ peaks \in [peaks : SeqsUpTo(PeakFreqs \X PeakTimes, MaxPeaks),
                  fan_value : FanValues]
    /\ hashes = <<>>

GenerateHashes ==
    /\ call = NoCall
    /\ call' = [kind |-> "generate_hashes"]
    /\ hashes' = generate_hashes(peaks.peaks, peaks.fan_value)
    /\ ret' = Returned
    /\ UNCHANGED <<catalogVars, songhashes_set, pc, poolVars, cur, recogVars,
                   matches, peaks>>

NextHash == GenerateHashes

SpecHash == InitHash /\ [][NextHash]_vars

----------------------------------------------------------------------------
(* Properties of the ingestion coordinator *)

IngestKinds == {"directory", "file"}

\* The fingerprint rows of one song, as (hash, time_offset) records
RowsOf(fps, sid) == { <<f[2], f[3]>> : f \in { g \in fps : g[1] = sid } }

\* File p has been ingested successfully: a fingerprinted song row carries
\* its SHA-1 and the known-hash set holds it
Ingested(p) ==
    /\ \E sid \in SongIds :
          songs[sid].fingerprinted /\ songs[sid].file_sha1 = unique_hash(p)
    /\ unique_hash(p) \in songhashes_set

\* C1, fingerprint_directory: every listed file that has been ingested is
\* skipped and gets no task
C1_DirectorySkips ==
    (pc = "idle" /\ pc' = "collect") =>
        \A l \in Listings, n \in 1 .. MaxProcs :
            FingerprintDirectory(l, n) =>
                \A p \in Range(l) :
                    Ingested(p) => p \in call'.skipped /\ p \notin DOMAIN taskState'

\* C1, fingerprint_file: on a file that has been ingested the call returns at
\* once, without an error and without a write
C1_FileSkips ==
    pc = "idle" =>
      \A p \in Paths, ok \in BOOLEAN :
        FingerprintFile(p, ok) /\ Ingested(p) =>
            /\ p \in call'.skipped
            /\ pc' = "done"
            /\ ret' = Returned
            /\ UNCHANGED catalogVars

\* C1: no step of a call writes a song row or a fingerprint row for the
\* SHA-1 of a file the call skipped
C1_NoWriteForSkipped ==
    call'.kind \in IngestKinds =>
        \A sid \in 1 .. Len(songs') :
            (\E p \in call'.skipped : unique_hash(p) = songs'[sid].file_sha1) =>
                /\ sid \in SongIds
                /\ songs'[sid] = songs[sid]
                /\ RowsOf(fingerprints', sid) = RowsOf(fingerprints, sid)

\* C1: a fingerprint_directory call all of whose files were skipped raises
\* nothing and never reaches a catalog write
C1_AllSkippedNoError ==
    (call.kind = "directory" /\ DOMAIN taskState = {}) =>
        ret.status # "raised" /\ pc \in {"collect", "done"}

\* C1: ingest is idempotent. Once a file has been ingested, a later
\* fingerprint_directory call over a directory holding it, or fingerprint_file
\* call on it, skips it: no insert_song, insert_hashes or
\* set_song_fingerprinted for it, no error, its rows unchanged.
C1_IngestIdempotent ==
    [][C1_DirectorySkips /\ C1_FileSkips /\ C1_NoWriteForSkipped
         /\ C1_AllSkippedNoError']_vars

\* A fingerprint_directory call that skipped an ingested file and ingested
\* another one has returned
C1_Witness ==
    /\ call.kind = "directory"
    /\ pc = "done"
    /\ ret = Returned
    /\ \E p \in call.skipped : Ingested(p)
    /\ \E q \in DOMAIN taskState : taskState[q] = "consumed" /\ Ingested(q)

\* C3 as stated: file_sha1 is unique across songs. In every state the
\* ingest calls reach, no two song rows carry the same file_sha1.
C3_FileSha1Unique ==
    \A i, j \in SongIds : i # j => songs[i].file_sha1 # songs[j].file_sha1

\* The records _fingerprint_worker returns for a file with this SHA-1
HashesOfContent(sha) == FileHashes[sha]

\* File p has its song row, all of its hash records and its flag
IngestedAs(p) ==
    \E sid \in SongIds :
        /\ songs[sid] = [song_name |-> path_to_songname(p),
                         file_sha1 |-> unique_hash(p), fingerprinted |-> TRUE]
        /\ RowsOf(fingerprints, sid) = fingerprint_worker(p).hashes

\* A fingerprint_directory call has ended
DirectoryOver == call.kind = "directory" /\ pc = "done"

\* C4: in fingerprint_directory an error the worker raised for one file does
\* not abort the batch. The call never ends with that error, and when it has
\* returned, every file it did not skip and whose worker did not fail has its
\* song row, its hash records and its flag.
C4_WorkerErrorNotFatal ==
    /\ call.kind = "directory" => ret # RaisedWorker
    /\ (DirectoryOver /\ ret = Returned) =>
          \A p \in DOMAIN taskState :
              /\ taskState[p] = "consumed"
              /\ p \notin call.failed => IngestedAs(p)

\* A fingerprint_directory call in which one worker failed has returned with
\* another file ingested
C4_Witness ==
    /\ DirectoryOver
    /\ ret = Returned
    /\ call.failed # {}
    /\ \E p \in DOMAIN taskState : p \notin call.failed /\ IngestedAs(p)

\* C5 as stated: in fingerprint_directory a catalog failure while writing one
\* file is caught at the per-file boundary and the remaining files of the
\* call are all consumed: the call ends with every task's result consumed.
C5_CatalogFailureCaught ==
    DirectoryOver => \A p \in DOMAIN taskState : taskState[p] = "consumed"

\* C6: a fingerprinted song has all of its hash records committed
C6_FlagImpliesHashes ==
    \A sid \in SongIds :
        songs[sid].fingerprinted =>
            RowsOf(fingerprints, sid) = HashesOfContent(songs[sid].file_sha1)

\* C6: set_song_fingerprinted is never reached for a song whose flag is set
C6_FlagSetOnce ==
    pc = "set_song_fingerprinted" => ~songs[cur.sid].fingerprinted

\* C6: the writes of one file follow one another in the order insert_song
\* (flag false), insert_hashes, set_song_fingerprinted, all on the row
\* inserted last, so that the writes of two files never interleave
C6_WriteOrder ==
    /\ Len(songs') > Len(songs) =>
          /\ pc = "insert_song"
          /\ Len(songs') = Len(songs) + 1
          /\ ~songs'[Len(songs')].fingerprinted
          /\ RowsOf(fingerprints', Len(songs')) = {}
    /\ \A sid \in SongIds :
          /\ RowsOf(fingerprints', sid) # RowsOf(fingerprints, sid) =>
                /\ sid = Len(songs)
                /\ ~songs[sid].fingerprinted
                /\ RowsOf(fingerprints, sid) = {}
                /\ songs' = songs
          /\ songs'[sid].fingerprinted # songs[sid].fingerprinted =>
                /\ sid = Len(songs)
                /\ songs'[sid].fingerprinted
                /\ RowsOf(fingerprints, sid) = HashesOfContent(songs[sid].file_sha1)
                /\ fingerprints' = fingerprints

\* C6: nothing of a fingerprinted song is written again
C6_FrozenOnceFlagged ==
    \A sid \in SongIds :
        songs[sid].fingerprinted =>
            /\ Len(songs') >= sid
            /\ songs'[sid] = songs[sid]
            /\ RowsOf(fingerprints', sid) = RowsOf(fingerprints, sid)

\* C6: per file the catalog writes happen in the order insert_song (flag
\* false), insert_hashes, set_song_fingerprinted and the writes of different
\* files never interleave; a song with fingerprinted = true has all of its
\* hash records committed, its flag is set at most once and no row of it is
\* written afterwards.
C6_WriteSequence ==
    [][C6_FlagImpliesHashes' /\ C6_FlagSetOnce' /\ C6_WriteOrder
         /\ C6_FrozenOnceFlagged]_vars

\* Two songs are fingerprinted, each with at least one hash record
C6_Witness ==
    /\ Cardinality(get_songs) = 2
    /\ \A sid \in get_songs : RowsOf(fingerprints, sid) # {}
    /\ pc = "idle"

----------------------------------------------------------------------------
(* Properties of recognition *)

\* A recognition of a clip of call.path starting call.shift frames in is over
RecognizeDone == call.kind = "recognize" /\ pc = "done"

\* The song rows of the track a file was ingested as
TrackIds(p) ==
    { sid \in SongIds :
        songs[sid].fingerprinted /\ songs[sid].file_sha1 = unique_hash(p) }

\* How many pairs return_matches produces for the key (sid, diff)
PairCount(ms, sid, diff) ==
    Cardinality({ m \in ms : m.sid = sid /\ m.diff = diff })

\* The result names the track of file p at offset k
NamesTrack(r, p, k) == r # None /\ r.song_id \in TrackIds(p) /\ r.offset = k

\* C2 as stated: recognizing a clip of an ingested track whose records are
\* the track's records shifted by k frames returns that track's song_id with
\* offset k and confidence > 0.
C2_SelfMatch ==
    (RecognizeDone /\ Ingested(call.path)) =>
        NamesTrack(ret, call.path, call.shift) /\ ret.confidence > 0

\* No key other than the track's own (song_id, k) collects as many pairs as
\* the clip has records
TrackKeyWinsAlone(p, k) ==
    LET ms == find_matches(p, k)
        n == Cardinality(ClipRecords(p, k))
    IN  \A m \in ms :
            (m.sid \notin TrackIds(p) \/ m.diff # k) =>
                PairCount(ms, m.sid, m.diff) < n

\* C2, amended: when the ingested track has at least one hash record, the
\* recognition of such a clip returns a match whose confidence is at least
\* the number of the clip's records (so > 0), and the match is that track's
\* song_id with offset k whenever no other (song_id, offset) key collects as
\* many pairs as the clip has records.
C2_SelfMatchAmended ==
    (RecognizeDone /\ Ingested(call.path)
        /\ ClipRecords(call.path, call.shift) # {}) =>
        /\ ret # None
        /\ ret.confidence >= Cardinality(ClipRecords(call.path, call.shift))
        /\ ret.confidence > 0
        /\ TrackKeyWinsAlone(call.path, call.shift) =>
              NamesTrack(ret, call.path, call.shift)

\* A clip starting one frame into an ingested track with two records has been
\* recognized against a catalog in which another song shares one of its hashes
C2_Witness ==
    /\ RecognizeDone
    /\ Ingested(call.path)
    /\ call.shift = 1
    /\ Cardinality(ClipRecords(call.path, call.shift)) = 2
    /\ \E m \in find_matches(call.path, call.shift) : m.sid \notin TrackIds(call.path)
    /\ TrackKeyWinsAlone(call.path, call.shift)
    /\ NamesTrack(ret, call.path, call.shift)
    /\ ret.confidence = 2

----------------------------------------------------------------------------
(* Properties of align_matches *)

\* align_matches has been called on `matches`
AlignOver == call.kind = "align_matches"

\* The number of pairs of ms equal to (sid, diff)
CountIn(ms, sid, diff) ==
    Cardinality({ i \in DOMAIN ms : ms[i] = <<sid, diff>> })

\* The largest such number over the pairs of ms
MaxTally(ms) ==
    LET counts == { CountIn(ms, ms[i][1], ms[i][2]) : i \in DOMAIN ms }
    IN  IF counts = {} THEN 0 ELSE CHOOSE c \in counts : \A d \in counts : d <= c

\* C7: for a non-empty input whose winning song has a row in the catalog,
\* align_matches returns as confidence the largest number of input pairs
\* equal to one (song_id, delta), and the returned (song_id, offset) is a key
\* with that many pairs; negative deltas included.
C7_ConfidenceIsMaxTally ==
    (AlignOver /\ matches # <<>> /\ ret # None) =>
        /\ ret.confidence = MaxTally(matches)
        /\ CountIn(matches, ret.song_id, ret.offset) = MaxTally(matches)

\* The winner has a negative delta and two of three pairs
C7_Witness ==
    /\ AlignOver
    /\ Len(matches) = 3
    /\ ret # None
    /\ ret.offset = -1
    /\ ret.confidence = 2

\* How many of the first n pairs of ms equal the n-th
PrefixCount(ms, n) ==
    Cardinality({ i \in 1 .. n : ms[i] = ms[n] })

\* The position at which a key first has c pairs
FirstToReach(ms, c) ==
    CHOOSE n \in DOMAIN ms :
        /\ PrefixCount(ms, n) = c
        /\ \A m \in 1 .. (n - 1) : PrefixCount(ms, m) # c

\* C8: ties are broken on first-seen. The result is the key that was the
\* first, in input order, to reach the maximal tally; a key that reaches the
\* same tally later does not replace it.
C8_FirstSeenWins ==
    (AlignOver /\ matches # <<>> /\ ret # None) =>
        <<ret.song_id, ret.offset>> = matches[FirstToReach(matches, MaxTally(matches))]

\* Two keys of song 1 end with one pair each, and the first one seen wins
C8_Witness ==
    /\ AlignOver
    /\ matches = << <<1, 1>>, <<1, 0>> >>
    /\ ret # None
    /\ ret.offset = 1
    /\ ret.confidence = 1

\* C9: on an empty sequence of match pairs align_matches returns None,
\* whatever the catalog holds.
C9_EmptyGivesNone ==
    (AlignOver /\ matches = <<>>) => ret = None

\* align_matches has returned None for no pairs against a catalog with songs
C9_Witness ==
    /\ AlignOver
    /\ matches = <<>>
    /\ Len(songs) >= 1
    /\ ret = None

----------------------------------------------------------------------------
(* Properties of generate_hashes *)

\* generate_hashes has been called on `peaks`
HashOver == call.kind = "generate_hashes"

\* The pairs (i, i + j) of the sorted peak list that lie in an anchor's target
\* zone
ZonePairs(sorted, fan_value) ==
    { <<i, i + j>> : <<i, j>> \in
        { x \in (1 .. Len(sorted)) \X (1 .. Len(sorted)) :
            x[2] < fan_value /\ x[1] + x[2] <= Len(sorted) } }

\* The time delta of a pair and the record it would give
DeltaOf(sorted, pr) == sorted[pr[2]][2] - sorted[pr[1]][2]

RecordOf(sorted, pr) ==
    << Sha1Prefix(MaybeHash(sorted[pr[1]][1], sorted[pr[2]][1], DeltaOf(sorted, pr))),
       sorted[pr[1]][2] >>

\* C10: generate_hashes emits no record for a pair whose time delta is
\* outside [0, 200]. Every emitted record is the record of a pair of the
\* target zone with 0 <= delta <= 200, and the record of a pair with a delta
\* outside that range is not emitted.
C10_DeltaBounds ==
    HashOver =>
        LET sorted == SortPeaks(peaks.peaks)
            zone == ZonePairs(sorted, peaks.fan_value)
        IN  /\ \A n \in DOMAIN hashes :
                  \E pr \in zone :
                      /\ hashes[n] = RecordOf(sorted, pr)
                      /\ 0 <= DeltaOf(sorted, pr)
                      /\ DeltaOf(sorted, pr) <= 200
            /\ \A pr \in zone :
                  (DeltaOf(sorted, pr) < 0 \/ DeltaOf(sorted, pr) > 200) =>
                      RecordOf(sorted, pr) \notin Range(hashes)

\* Peaks (10,0), (10,5), (10,250) with fan_value 15: only the pair 0 -> 5
\* gives a record
C10_Witness ==
    /\ HashOver
    /\ peaks = [peaks |-> << <<10, 0>>, <<10, 5>>, <<10, 250>> >>,
                fan_value |-> DEFAULT_FAN_VALUE]
    /\ hashes = << <<Sha1Prefix(MaybeHash(10, 10, 5)), 0>> >>

\* The peak list in the order the claims speak of: the arrangement of the
\* same peaks that ascends by (frequency-bin, time-bin)
Ascending(s) ==
    \A i, j \in DOMAIN s :
        i < j => \/ s[i][1] < s[j][1]
                 \/ s[i][1] = s[j][1] /\ s[i][2] <= s[j][2]

SameMultiset(s, l) ==
    /\ DOMAIN s = DOMAIN l
    /\ \A x \in Range(l) :
          Cardinality({ i \in DOMAIN s : s[i] = x })
              = Cardinality({ i \in DOMAIN l : l[i] = x })

SortedPeaks(l) ==
    CHOOSE s \in [DOMAIN l -> Range(l)] : Ascending(s) /\ SameMultiset(s, l)

\* The pairs (i, i + j) with 1 <= j < fan_value, i + j in range and
\* 0 <= delta <= 200
QualifyingPairs(sorted, fan_value) ==
    { pr \in (1 .. Len(sorted)) \X (1 .. Len(sorted)) :
        /\ pr[2] - pr[1] >= 1
        /\ pr[2] - pr[1] < fan_value
        /\ sorted[pr[2]][2] - sorted[pr[1]][2] >= 0
        /\ sorted[pr[2]][2] - sorted[pr[1]][2] <= 200 }

\* The place of a pair among the qualifying pairs, by anchor and then target
PairRank(Q, pr) ==
    Cardinality({ q \in Q : q[1] < pr[1] \/ (q[1] = pr[1] /\ q[2] <= pr[2]) })

----------------------------------------------------------------------------
(* Order-independence of what fingerprint_directory stores *)

\* The files of the call whose results were written: those that got a task
\* and whose worker did not fail
WrittenFiles == DOMAIN taskState \ call.failed

\* The (file_sha1, hash, time_offset) of a file's records
RecordsOfFile(p) ==
    { <<unique_hash(p), r[1], r[2]>> : r \in HashesOfContent(unique_hash(p)) }

\* When the call has returned, whatever the order of the listing and the order
\* in which the results arrived, the catalog holds the (file_sha1, hash,
\* time_offset) it held before plus those of the files written, and the
\* fingerprinted file_sha1 values it held before plus those of the files
\* written.
ReturnedCallOrderFree ==
    (DirectoryOver /\ ret = Returned) =>
        /\ StoredFingerprints =
              call.before.fingerprints \cup UNION { RecordsOfFile(p) : p \in WrittenFiles }
        /\ FingerprintedSha1s =
              call.before.known \cup { unique_hash(p) : p \in WrittenFiles }

\* C12 as stated: the stored result of fingerprint_directory is independent
\* of file discovery order and of worker completion order. When the call is
\* over, the tasks are the listed files whose SHA-1 was not known, and the
\* final catalog is the same for every order of arrival: a call that returned
\* has added the records of exactly the files written, and a file whose worker
\* did not fail and whose writes were never attempted (so never rejected) is
\* stored, whichever result arrived first.
C12_StoredResultOrderFree ==
    DirectoryOver =>
        /\ DOMAIN taskState =
              { p \in call.skipped \cup DOMAIN taskState :
                  unique_hash(p) \notin call.before.known }
        /\ ReturnedCallOrderFree
        /\ \A p \in WrittenFiles :
              taskState[p] # "consumed" =>
                  /\ RecordsOfFile(p) \subseteq StoredFingerprints
                  /\ unique_hash(p) \in FingerprintedSha1s

----------------------------------------------------------------------------
(* The offset in seconds *)

\* round(delta * NFFT * overlap_ratio / fs, 5) in units of 10^-5 s, with
\* NFFT = 4096 and overlap_ratio = 0.5: the integer nearest to
\* delta * 204800000 / fs, that is to delta * 2048000 / (fs / 100) for the
\* sample rates at hand, which are multiples of 100
RoundedSeconds(delta, fs) ==
    (2 * (delta * 2048000) + (fs \div 100)) \div (2 * (fs \div 100))

\* C13 as stated: align_matches returns offset = delta_best and
\* offset_seconds = round(delta_best * NFFT * overlap_ratio / fs, 5) with
\* NFFT = 4096, overlap_ratio = 0.5 and fs the sample rate of the query.
C13_OffsetSecondsQueryFs ==
    (RecognizeDone /\ ret # None) =>
        /\ ret.offset = alignSt.largest
        /\ ret.offset_seconds =
              RoundedSeconds(alignSt.largest, SampleRate(unique_hash(call.path)))

----------------------------------------------------------------------------
(* A catalog write that fails *)

\* A write after insert_song fails: insert_hashes or set_song_fingerprinted
\* raises
FailsAfterInsertSong ==
    pc \in {"insert_hashes", "set_song_fingerprinted"} /\ ret' = RaisedCatalog

\* C14: if a catalog write fails after insert_song and before
\* set_song_fingerprinted completes, the song row stays with fingerprinted =
\* false, its file_sha1 is not added to the in-memory known-hash set, and
\* set_song_fingerprinted is never called for that song_id later in the same
\* call: the failing step leaves the row unflagged and the set as it was, the
\* rest of the call writes nothing and refreshes nothing, and a row is only
\* ever flagged by the call that inserted it, before any failure.
C14_FailedWriteLeavesUnflagged ==
    [][/\ FailsAfterInsertSong =>
              /\ ~songs[cur.sid].fingerprinted
              /\ songs' = songs
              /\ songhashes_set' = songhashes_set
              /\ pc' = "done"
       /\ ret = RaisedCatalog =>
              UNCHANGED <<songs, fingerprints, songhashes_set>>
       /\ \A sid \in SongIds :
              (~songs[sid].fingerprinted /\ songs'[sid].fingerprinted) =>
                  /\ pc = "set_song_fingerprinted"
                  /\ sid = cur.sid
                  /\ ret = Running]_vars

\* A call has ended with the catalog's error after the hashes of its song
\* were inserted: the row is unflagged and its SHA-1 is not known
C14_Witness ==
    /\ pc = "done"
    /\ ret = RaisedCatalog
    /\ Len(songs) >= 1
    /\ ~songs[Len(songs)].fingerprinted
    /\ RowsOf(fingerprints, Len(songs)) # {}
    /\ songs[Len(songs)].file_sha1 \notin songhashes_set

----------------------------------------------------------------------------
(* The in-memory known-hash set *)

\* The coordinator is between two files or between two calls: every ingest
\* begun has either been refreshed after or has not reached its flag
KnownSetSettled == pc \in {"idle", "collect", "done"}

\* C15: the known-hash set is refreshed only by the coordinator and, after
\* construction and after every successful ingest (in fingerprint_directory
\* and fingerprint_file), equals exactly the set of file_sha1 values of the
\* catalog songs with fingerprinted = true; workers never modify it. It
\* equals that set initially; it changes only in the coordinator's refresh
\* after the three writes; each refresh, and so each successful ingest, leaves
\* it equal to that set; a worker finishing leaves it as it was.
C15_KnownSetIsFingerprinted ==
    /\ songhashes_set = FingerprintedSha1s
    /\ [][/\ songhashes_set' # songhashes_set => pc = "get_fingerprinted_songs"
          /\ (pc = "get_fingerprinted_songs" /\ pc' # pc) =>
                /\ songs[cur.sid].fingerprinted
                /\ songhashes_set' = FingerprintedSha1s'
                /\ cur.file_hash \in songhashes_set'
          /\ KnownSetSettled' => songhashes_set' = FingerprintedSha1s'
          /\ results' # results /\ Len(results') > Len(results) =>
                songhashes_set' = songhashes_set]_vars

\* After a failed ingest left an unflagged row, another file has been ingested
\* and the set holds its SHA-1 only
C15_Witness ==
    /\ pc = "done"
    /\ ret = Returned
    /\ call.kind \in IngestKinds
    /\ songhashes_set # {}
    /\ songhashes_set = FingerprintedSha1s
    /\ \E sid \in SongIds :
          ~songs[sid].fingerprinted /\ songs[sid].file_sha1 \notin songhashes_set

----------------------------------------------------------------------------
(* The end of the collection loop *)

\* The workers and the coordinator keep running: a call in progress takes its
\* next step
SpecLive == Spec /\ WF_vars(Next)

\* The loop of every fingerprint_directory call comes to an end
CollectionLoopEnds == (pc = "collect") ~> (pc = "done")

\* C16 as stated: the collection loop of fingerprint_directory ends only when
\* the result stream is exhausted, at which point every non-skipped file has
\* either been written to the catalog or been reported as failed. When the
\* call is over, no result is left, every task's result has been handed over,
\* and every file that got a task is ingested or was reported as failed.
C16_LoopEndsOnExhaustion ==
    DirectoryOver =>
        /\ results = <<>>
        /\ \A p \in DOMAIN taskState :
              /\ taskState[p] = "consumed"
              /\ IngestedAs(p) \/ p \in call.failed

----------------------------------------------------------------------------
(* A winner without a song row *)

\* The key that won the tally: the first to reach the largest tally
WinningKey(ms) == ms[FirstToReach(ms, MaxTally(ms))]

\* C17: when the (delta, song_id) key that won the tally has no song row in
\* the catalog, align_matches returns None regardless of how many pairs were
\* consumed, even if another key with a lower tally belongs to an existing
\* song.
C17_MissingRowGivesNone ==
    (AlignOver /\ matches # <<>> /\ WinningKey(matches)[1] \notin SongIds) =>
        ret = None

\* Two pairs for a song id without a row and one pair for song 1, which has
\* a row: the result is None
C17_Witness ==
    /\ AlignOver
    /\ Len(songs) = 1
    /\ matches = << <<2, 0>>, <<1, 0>>, <<2, 0>> >>
    /\ ret = None

----------------------------------------------------------------------------
(* What a worker returns *)

\* The coordinator holds the triple a worker returned for a file
WorkerReturned == pc = "insert_song"

\* Channel c of the file with this content produces the record
ChannelProduces(sha, c, rec) ==
    LET hs == generate_hashes(ChannelPeaks(sha)[c], DEFAULT_FAN_VALUE)
    IN  \E n \in DOMAIN hs : hs[n] = rec

\* Every record some channel of the file produces
ChannelRecords(sha) ==
    UNION { Range(generate_hashes(ChannelPeaks(sha)[c], DEFAULT_FAN_VALUE)) :
              c \in DOMAIN ChannelPeaks(sha) }

\* C18: the hash set a worker returns for a file is exactly the set-union
\* over all channels of the (hash, anchor_time) records produced for each
\* channel independently: every record a channel produced is in it, no record
\* is in it that no channel produced, and a record produced by several
\* channels counts once.
C18_WorkerReturnsUnion ==
    WorkerReturned =>
        LET sha == cur.file_hash
            chans == DOMAIN ChannelPeaks(sha)
        IN  /\ \A rec \in ChannelRecords(sha) : rec \in cur.hashes
            /\ \A rec \in cur.hashes : \E c \in chans : ChannelProduces(sha, c, rec)
            /\ Cardinality(cur.hashes) = Cardinality(ChannelRecords(sha))

\* The worker has returned two records for the stereo file, one of them
\* produced by both channels and one by the second channel only
C18_Witness ==
    /\ WorkerReturned
    /\ cur.file_hash = 1
    /\ Cardinality(cur.hashes) = 2
    /\ \E rec \in cur.hashes : \A c \in {1, 2} : ChannelProduces(1, c, rec)
    /\ \E rec \in cur.hashes : ~ChannelProduces(1, 1, rec) /\ ChannelProduces(1, 2, rec)

----------------------------------------------------------------------------
(* align_matches and the order of its input *)

\* The arrangements of 1 .. n
IndexPerms(n) ==
    { f \in [1 .. n -> 1 .. n] : \A i, j \in 1 .. n : i # j => f[i] # f[j] }

PermTable == [n \in 0 .. MaxMatches |-> IndexPerms(n)]

\* The sequence that holds the pairs of ms in the arrangement f
Reordered(ms, f) == [i \in DOMAIN ms |-> ms[f[i]]]

\* What a result says of the confidence and of the winner: nothing when it is
\* None
ConfidenceOf(r) == IF r = None THEN {} ELSE {r.confidence}

WinnerOf(r) == IF r = None THEN {} ELSE {<<r.song_id, r.offset>>}

\* The maximal tally is attained by a single key
SingleMaxKey(ms) ==
    Cardinality({ i \in DOMAIN ms : CountIn(ms, ms[i][1], ms[i][2]) = MaxTally(ms)
                                    /\ PrefixCount(ms, i) = 1 }) = 1

\* What align_matches returns for the arrangements of ms: the results, the
\* confidences and the winners among them
ResultsOf(ms) == { align_matches(Reordered(ms, f)) : f \in PermTable[Len(ms)] }

ConfidencesOf(ms) == UNION { ConfidenceOf(r) : r \in ResultsOf(ms) }

\* matches is the ascending arrangement of its pairs: it stands for all the
\* sequences that hold the same pairs as often
Representative == AlignOver /\ Ascending(matches)

\* C19 as stated: the confidence returned by align_matches does not depend on
\* the order of the input pairs. For every permutation of the same multiset
\* of (song_id, delta) pairs the returned confidence is the same, and the
\* returned (song_id, offset) is the same whenever the maximal tally is
\* attained by a single key.
C19_ConfidenceOrderFree ==
    Representative =>
        /\ \A r \in ResultsOf(matches) : ConfidenceOf(r) = ConfidenceOf(ret)
        /\ SingleMaxKey(matches) =>
              \A r \in ResultsOf(matches) : WinnerOf(r) = WinnerOf(ret)

\* C19, amended: for every permutation of the same multiset of pairs, the
\* orders that return a match all return the same confidence, and when the
\* maximal tally is attained by a single key every order returns the same
\* result: the same song_id, offset and confidence, or None in every order.
C19_ConfidenceOrderFreeAmended ==
    Representative =>
        /\ ret \in ResultsOf(matches)
        /\ Cardinality(ConfidencesOf(matches)) <= 1
        /\ SingleMaxKey(matches) => ResultsOf(matches) = {ret}

\* Three pairs, two of them for the same key: the key with two pairs is
\* returned in every order
C19_Witness ==
    /\ AlignOver
    /\ matches = << <<1, 0>>, <<1, 0>>, <<2, 1>> >>
    /\ SingleMaxKey(matches)
    /\ \E f \in PermTable[3] : Reordered(matches, f) # matches
    /\ ret # None
    /\ ret.song_id = 1
    /\ ret.confidence = 2

----------------------------------------------------------------------------
(* generate_hashes and the order of its input *)

PeakPermTable == [n \in 0 .. MaxPeaks |-> IndexPerms(n)]

====
